---- MODULE Spec2Model ----
(***************************************************************************)
(* State-machine model of the starframe-vault program (src/src/lib.rs):    *)
(* the four instructions Initialize, Deposit, Withdraw and Close acting on *)
(* the accounts of the ledger, together with the host behaviour the        *)
(* program relies on (system-program transfers, program-derived addresses, *)
(* the abort of a failed instruction, reclamation of drained accounts).    *)
(*                                                                         *)
(* Addresses are integers and the ledger is a function from addresses to   *)
(* accounts [lamports, owner, data]; data is a sequence of bytes.          *)
(*                                                                         *)
(* Lamports are counted in a coarse unit (RentExempt = 2, StateRent = 3).  *)
(* An instruction runs to completion in one step; its inputs and outcome   *)
(* are kept in the log variable last until Return.  The system_program     *)
(* account handle and the writable flags of the account metas are taken to *)
(* be supplied correctly and are not part of the state.                    *)
(***************************************************************************)
EXTENDS Integers, Sequences, FiniteSets, TLC

(* ------------------------------ bounds -------------------------------- *)

\* lamports the wallet of owner A holds in the initial state
InitLamportsA == 16
\* lamports the wallet of owner B holds in the initial state
InitLamportsB == 6
\* largest amount argument of Deposit / Withdraw that is enumerated
MaxAmount == 3
\* largest value of a lamport field (the width of the balance type, scaled)
U64Max == 255

(* --------------------------- program constants ------------------------ *)

\* seed_const = b"STATE" (tag of the state-address derivation)
TagState == 1
\* seed_const = b"VAULT" (tag of the custody-address derivation)
TagVault == 2
\* first bump tried by find_program_address
MaxBump == 255
\* rent.minimum_balance(0): the rent-exempt floor R of a data-less account
RentExempt == 2
\* rent.minimum_balance(8 + INIT_SPACE): storage balance of the state record
StateRent == 3
\* VaultState::INIT_SPACE = 32 + 1 + 1
InitSpace == 34
\* width of a Pubkey in bytes
PubkeyLen == 32

\* the account discriminator the framework puts in front of a VaultState
Discriminator == <<228, 196, 82, 165, 98, 210, 235, 152>>

SystemProgram == "system"
VaultProgram == "vault"

(* --------------------------- address derivation ----------------------- *)

\* hash of (seed tag, seed key, bump, program id): collision free
Hash(tag, key, bump) == (key * 256 + bump) * 4 + tag

\* whether a hash output is a point of the signing curve
OnCurve(h) == h % 3 = 0

\* Pubkey::create_program_address: the address for one given bump, 0 if none
CreateProgramAddress(tag, key, bump) ==
    IF bump \notin 0..MaxBump \/ OnCurve(Hash(tag, key, bump))
    THEN 0
    ELSE Hash(tag, key, bump)

RECURSIVE FindBump(_, _, _)
\* the bump search of find_program_address: from b downwards, first off-curve
FindBump(tag, key, b) ==
    IF b < 0 THEN -1
    ELSE IF ~OnCurve(Hash(tag, key, b)) THEN b
    ELSE FindBump(tag, key, b - 1)

\* the check invoke_signed makes of signer seeds that end in a given bump:
\* they must recreate address
VerifyDerivation(address, tag, key, bump) ==
    /\ CreateProgramAddress(tag, key, bump) # 0
    /\ CreateProgramAddress(tag, key, bump) = address

\* FindProgramAddress taking the address of the first bump tried
FindProgramAddressTop(tag, key) ==
    [address |-> Hash(tag, key, MaxBump), bump |-> FindBump(tag, key, MaxBump)]

\* Pubkey::find_program_address(seeds, &crate::ID) -> (address, bump)
FindProgramAddress(tag, key) ==
    LET b == FindBump(tag, key, MaxBump)
    IN  [address |-> CreateProgramAddress(tag, key, b), bump |-> b]

\* VaultStateSeeds { owner }: the state address of an owner
StatePda(owner) == FindProgramAddress(TagState, owner).address
\* VaultSeeds { state }: the custody address of a state address
VaultPda(state) == FindProgramAddress(TagVault, state).address

(* ------------------------------ the ledger ---------------------------- *)

\* the two signers of the ledger: an owner and a second, unrelated party
OwnerA == 4
OwnerB == 8
Wallets == {OwnerA, OwnerB}
StatePdas == {StatePda(w) : w \in Wallets}
VaultPdas == {VaultPda(s) : s \in StatePdas}
Addrs == Wallets \cup StatePdas \cup VaultPdas
Amounts == 0..MaxAmount

\* an account that does not exist: no lamports, system owned, no data
DefaultAccount == [lamports |-> 0, owner |-> SystemProgram, data |-> <<>>]

(* ------------------------------ record codec -------------------------- *)

RECURSIVE LeBytes(_, _)
\* n as len little-endian bytes
LeBytes(n, len) ==
    IF len = 0 THEN <<>> ELSE <<n % 256>> \o LeBytes(n \div 256, len - 1)

RECURSIVE FromLe(_)
\* the integer a little-endian byte string stands for
FromLe(bytes) ==
    IF bytes = <<>> THEN 0 ELSE Head(bytes) + 256 * FromLe(Tail(bytes))

Zeros(len) == [i \in 1..len |-> 0]

\* BytesOf with vault_bump laid out before state_bump
BytesOfSwapped(rec) ==
    LeBytes(rec.owner, PubkeyLen) \o <<rec.vault_bump>> \o <<rec.state_bump>>

\* bytemuck::bytes_of(&VaultState): owner, state_bump, vault_bump, packed
BytesOf(rec) == LeBytes(rec.owner, PubkeyLen) \o <<rec.state_bump>> \o <<rec.vault_bump>>

\* the VaultState read back from the bytes after the discriminator
RecordOf(data) ==
    LET body == SubSeq(data, Len(Discriminator) + 1, Len(data))
    IN  [owner      |-> FromLe(SubSeq(body, 1, PubkeyLen)),
         state_bump |-> body[PubkeyLen + 1],
         vault_bump |-> body[PubkeyLen + 2]]

\* IsVaultState without the discriminator comparison
IsVaultStateAnyData(account) ==
    /\ account.owner = VaultProgram
    /\ Len(account.data) = Len(Discriminator) + InitSpace

\* Account<VaultState>: owned by the program and carrying its discriminator
IsVaultState(account) ==
    /\ account.owner = VaultProgram
    /\ Len(account.data) = Len(Discriminator) + InitSpace
    /\ SubSeq(account.data, 1, Len(Discriminator)) = Discriminator

(* ------------------------------ host primitives ----------------------- *)

\* outcome of a step: the working copy of the ledger and how the step ended
Ok(a) == [ok |-> TRUE, err |-> "", acc |-> a]
Fail(a, e) == [ok |-> FALSE, err |-> e, acc |-> a]

\* u64::wrapping_sub in place of saturating_sub
WrappingSub(x, y) == (x - y) % (U64Max + 1)

\* u64::saturating_sub
SaturatingSub(x, y) == IF x >= y THEN x - y ELSE 0

\* SystemTransfer with the credit wrapping instead of checked
SystemTransferWrapping(a, from, to, amount, signers) ==
    IF from \notin signers THEN Fail(a, "MissingRequiredSignature")
    ELSE IF a[from].owner # SystemProgram \/ a[from].data # <<>>
         THEN Fail(a, "InvalidArgument")
    ELSE IF a[from].lamports < amount THEN Fail(a, "SystemInsufficientFunds")
    ELSE LET debited == [a EXCEPT ![from].lamports = @ - amount]
         IN  Ok([debited EXCEPT ![to].lamports = (@ + amount) % (U64Max + 1)])

\* System Program Transfer (discriminant 2): from must sign, be system owned
\* and carry no data; the debit is checked, the credit is a checked add
SystemTransfer(a, from, to, amount, signers) ==
    IF from \notin signers THEN Fail(a, "MissingRequiredSignature")
    ELSE IF a[from].owner # SystemProgram \/ a[from].data # <<>>
         THEN Fail(a, "InvalidArgument")
    ELSE IF a[from].lamports < amount THEN Fail(a, "SystemInsufficientFunds")
    ELSE LET debited == [a EXCEPT ![from].lamports = @ - amount]
         IN  IF debited[to].lamports + amount > U64Max
             THEN Fail(a, "ArithmeticOverflow")
             ELSE Ok([debited EXCEPT ![to].lamports = @ + amount])

\* invoke(&transfer_ix, ..): the transaction's signer signs
Invoke(a, from, to, amount, signer) == SystemTransfer(a, from, to, amount, {signer})

\* invoke_signed(&transfer_ix, .., &[&signer_seeds]): the program signs for the
\* address that create_program_address yields for seeds ++ [bump]
InvokeSigned(a, from, to, amount, tag, key, bump) ==
    SystemTransfer(a, from, to, amount, {CreateProgramAddress(tag, key, bump)} \ {0})

\* CreateAccount that accepts an account the program already owns
CreateAccountIfNeeded(a, funder, state) ==
    IF a[state].owner = VaultProgram THEN Ok(a)
    ELSE IF a[state].owner # SystemProgram \/ a[state].data # <<>> \/ a[state].lamports > 0
    THEN Fail(a, "AlreadyInitialized")
    ELSE IF a[funder].lamports < StateRent THEN Fail(a, "SystemInsufficientFunds")
    ELSE Ok([a EXCEPT ![funder].lamports = @ - StateRent,
                      ![state] = [lamports |-> StateRent,
                                  owner    |-> VaultProgram,
                                  data     |-> Discriminator \o Zeros(InitSpace)]])

\* Create(()): the funder pays the storage balance, the account is allocated
\* zeroed, assigned to the program and given its discriminator
CreateAccount(a, funder, state) ==
    IF a[state].owner # SystemProgram \/ a[state].data # <<>> \/ a[state].lamports > 0
    THEN Fail(a, "AlreadyInitialized")
    ELSE IF a[funder].lamports < StateRent THEN Fail(a, "SystemInsufficientFunds")
    ELSE Ok([a EXCEPT ![funder].lamports = @ - StateRent,
                      ![state] = [lamports |-> StateRent,
                                  owner    |-> VaultProgram,
                                  data     |-> Discriminator \o Zeros(InitSpace)]])

(* --------------------------- account validation ----------------------- *)

\* SystemAccount: the account is owned by the system program
IsSystemAccount(account) == account.owner = SystemProgram

\* SeedsMatch with the seeds not tied to the signer
SeedsMatchAnyOwner(state, signer) == \E w \in Wallets : state = StatePda(w)

\* Seeds(VaultStateSeeds { owner: signer }): the supplied state address is the
\* one derived from the signer
SeedsMatch(state, signer) == state = StatePda(signer)

\* VaultMatches with the custody address not tied to the state address
VaultMatchesAnyState(vault, state) == \E s \in StatePdas : vault = VaultPda(s)

\* ensure!(*a.vault.pubkey() == expected_vault, "Invalid vault PDA")
VaultMatches(vault, state) == vault = VaultPda(state)

\* AccountValidate<&Pubkey> for VaultState: ensure!(self_ref.owner == *owner)
ValidateAccount(rec, owner) == rec.owner = owner

\* ValidateInitialize with the seeds of the state account taken from any
\* wallet instead of the signer
ValidateInitializeAnyOwner(a, owner, state, vault) ==
    IF ~IsSystemAccount(a[owner]) THEN Fail(a, "InvalidAccountOwner")
    ELSE IF state \notin StatePdas THEN Fail(a, "InvalidSeeds")
    ELSE LET created == CreateAccount(a, owner, state)
         IN  IF ~created.ok THEN created
             ELSE IF ~IsSystemAccount(created.acc[vault])
                  THEN Fail(created.acc, "InvalidAccountOwner")
                  ELSE created

\* InitializeAccounts: owner, then state (seeds, then creation), then vault
ValidateInitialize(a, owner, state, vault) ==
    IF ~IsSystemAccount(a[owner]) THEN Fail(a, "InvalidAccountOwner")
    ELSE IF ~SeedsMatch(state, owner) THEN Fail(a, "InvalidSeeds")
    ELSE LET created == CreateAccount(a, owner, state)
         IN  IF ~created.ok THEN created
             ELSE IF ~IsSystemAccount(created.acc[vault])
                  THEN Fail(created.acc, "InvalidAccountOwner")
                  ELSE created

\* ValidateVaultAccounts without the Seeds argument of the state account
ValidateVaultAccountsNoSeeds(a, user, vault, vault_state) ==
    IF ~IsSystemAccount(a[user]) THEN Fail(a, "InvalidAccountOwner")
    ELSE IF ~IsSystemAccount(a[vault]) THEN Fail(a, "InvalidAccountOwner")
    ELSE IF ~IsVaultState(a[vault_state]) THEN Fail(a, "InvalidAccountData")
    ELSE Ok(a)

\* DepositAccounts / WithdrawAccounts / CloseAccounts: user, vault, vault_state
ValidateVaultAccounts(a, user, vault, vault_state) ==
    IF ~IsSystemAccount(a[user]) THEN Fail(a, "InvalidAccountOwner")
    ELSE IF ~IsSystemAccount(a[vault]) THEN Fail(a, "InvalidAccountOwner")
    ELSE IF ~IsVaultState(a[vault_state]) THEN Fail(a, "InvalidAccountData")
    ELSE IF ~SeedsMatch(vault_state, user) THEN Fail(a, "InvalidSeeds")
    ELSE Ok(a)

(* ------------------------------ the instructions ---------------------- *)

\* InitializeProcess storing the two bumps in each other's field
InitializeProcessSwapped(a, owner, state, vault) ==
    LET vault_bump == FindProgramAddress(TagVault, state).bump
        state_bump == FindProgramAddress(TagState, owner).bump
    IN  IF ~VaultMatches(vault, state) THEN Fail(a, "Invalid vault PDA")
        ELSE LET t == Invoke(a, owner, vault, RentExempt, owner)
             IN  IF ~t.ok THEN t
                 ELSE Ok([t.acc EXCEPT ![state].data =
                            Discriminator \o BytesOf([owner      |-> owner,
                                                      state_bump |-> vault_bump,
                                                      vault_bump |-> state_bump])])

\* InitializeProcess topping the custody balance up to the rent-exempt minimum
InitializeProcessTopUp(a, owner, state, vault) ==
    LET vault_bump == FindProgramAddress(TagVault, state).bump
        state_bump == FindProgramAddress(TagState, owner).bump
    IN  IF ~VaultMatches(vault, state) THEN Fail(a, "Invalid vault PDA")
        ELSE LET t == Invoke(a, owner, vault,
                             SaturatingSub(RentExempt, a[vault].lamports), owner)
             IN  IF ~t.ok THEN t
                 ELSE Ok([t.acc EXCEPT ![state].data =
                            Discriminator \o BytesOf([owner      |-> owner,
                                                      state_bump |-> state_bump,
                                                      vault_bump |-> vault_bump])])

\* InitializeIx::process
InitializeProcess(a, owner, state, vault) ==
    LET vault_bump == FindProgramAddress(TagVault, state).bump
        state_bump == FindProgramAddress(TagState, owner).bump
    IN  IF ~VaultMatches(vault, state) THEN Fail(a, "Invalid vault PDA")
        ELSE LET t == Invoke(a, owner, vault, RentExempt, owner)
             IN  IF ~t.ok THEN t
                 ELSE Ok([t.acc EXCEPT ![state].data =
                            Discriminator \o BytesOf([owner      |-> owner,
                                                      state_bump |-> state_bump,
                                                      vault_bump |-> vault_bump])])

\* DepositFundsCheck with the comparison dropped
DepositFundsUnchecked(user_lamports, amount) == user_lamports >= 0

\* ensure!(user_lamports >= amount, "Insufficient funds")
DepositFundsCheck(user_lamports, amount) == user_lamports >= amount

\* DepositProcess transferring the user's whole balance
DepositProcessAll(a, user, vault, vault_state, amount) ==
    IF ~VaultMatches(vault, vault_state) THEN Fail(a, "Invalid vault PDA")
    ELSE IF ~DepositFundsCheck(a[user].lamports, amount)
         THEN Fail(a, "Insufficient funds")
    ELSE Invoke(a, user, vault, a[user].lamports, user)

\* DepositProcess with the transfer running from the custody address to the
\* user, signed for the custody address
DepositProcessReversed(a, user, vault, vault_state, amount) ==
    IF ~VaultMatches(vault, vault_state) THEN Fail(a, "Invalid vault PDA")
    ELSE IF ~DepositFundsCheck(a[user].lamports, amount)
         THEN Fail(a, "Insufficient funds")
    ELSE InvokeSigned(a, vault, user, amount, TagVault, vault_state,
                      RecordOf(a[vault_state].data).vault_bump)

\* DepositProcess crediting the state account instead of the custody address
DepositProcessToState(a, user, vault, vault_state, amount) ==
    IF ~VaultMatches(vault, vault_state) THEN Fail(a, "Invalid vault PDA")
    ELSE IF ~DepositFundsCheck(a[user].lamports, amount)
         THEN Fail(a, "Insufficient funds")
    ELSE Invoke(a, user, vault_state, amount, user)

\* DepositIx::process
DepositProcess(a, user, vault, vault_state, amount) ==
    IF ~VaultMatches(vault, vault_state) THEN Fail(a, "Invalid vault PDA")
    ELSE IF ~DepositFundsCheck(a[user].lamports, amount)
         THEN Fail(a, "Insufficient funds")
    ELSE Invoke(a, user, vault, amount, user)

\* WithdrawFundsCheck comparing the balance with a value derived from itself
WithdrawFundsCheckSelf(vault_lamports, rent_exempt, amount) ==
    vault_lamports >= SaturatingSub(vault_lamports, rent_exempt)

\* WithdrawFundsCheck without the rent-exempt floor
WithdrawFundsCheckNoFloor(vault_lamports, rent_exempt, amount) ==
    vault_lamports >= amount

\* ensure!(available_lamports >= amount, "Insufficient vault balance")
WithdrawFundsCheck(vault_lamports, rent_exempt, amount) ==
    SaturatingSub(vault_lamports, rent_exempt) >= amount

\* WithdrawProcess transferring everything above the floor
WithdrawProcessAvailable(a, user, vault, vault_state, amount) ==
    LET vault_state_data == RecordOf(a[vault_state].data)
    IN  IF ~VaultMatches(vault, vault_state) THEN Fail(a, "Invalid vault PDA")
        ELSE IF ~WithdrawFundsCheck(a[vault].lamports, RentExempt, amount)
             THEN Fail(a, "Insufficient vault balance")
        ELSE InvokeSigned(a, vault, user, SaturatingSub(a[vault].lamports, RentExempt),
                          TagVault, vault_state, vault_state_data.vault_bump)

\* WithdrawIx::process
WithdrawProcess(a, user, vault, vault_state, amount) ==
    LET vault_state_data == RecordOf(a[vault_state].data)
    IN  IF ~VaultMatches(vault, vault_state) THEN Fail(a, "Invalid vault PDA")
        ELSE IF ~WithdrawFundsCheck(a[vault].lamports, RentExempt, amount)
             THEN Fail(a, "Insufficient vault balance")
        ELSE InvokeSigned(a, vault, user, amount,
                          TagVault, vault_state, vault_state_data.vault_bump)

\* CloseStateAccount without data.fill(0)
CloseStateAccountKeepData(a, user, vault_state, checked) ==
    LET state_lamports == a[vault_state].lamports
        sum == a[user].lamports + state_lamports
    IN  IF state_lamports > 0
        THEN IF sum > U64Max /\ checked THEN Fail(a, "ArithmeticOverflow")
             ELSE Ok([[a EXCEPT ![vault_state].lamports = 0]
                         EXCEPT ![user].lamports = sum % (U64Max + 1)])
        ELSE Ok(a)

\* the manual closure of the state account: lamports to the user, data zeroed;
\* the unchecked += either panics (checked build) or wraps
CloseStateAccount(a, user, vault_state, checked) ==
    LET state_lamports == a[vault_state].lamports
        sum == a[user].lamports + state_lamports
    IN  IF state_lamports > 0
        THEN IF sum > U64Max /\ checked THEN Fail(a, "ArithmeticOverflow")
             ELSE Ok([[[a EXCEPT ![vault_state].lamports = 0]
                          EXCEPT ![user].lamports = sum % (U64Max + 1)]
                          EXCEPT ![vault_state].data = Zeros(Len(@))])
        ELSE Ok(a)

\* CloseProcess without the transfer of the custody balance
CloseProcessNoSweep(a, user, vault, vault_state, checked) ==
    IF ~VaultMatches(vault, vault_state) THEN Fail(a, "Invalid vault PDA")
    ELSE CloseStateAccount(a, user, vault_state, checked)

\* CloseProcess refusing a custody balance below the rent-exempt minimum
CloseProcessKeepFloor(a, user, vault, vault_state, checked) ==
    LET vault_state_data == RecordOf(a[vault_state].data)
        vault_lamports == a[vault].lamports
    IN  IF ~VaultMatches(vault, vault_state) THEN Fail(a, "Invalid vault PDA")
        ELSE IF vault_lamports < RentExempt
             THEN Fail(a, "Insufficient vault balance")
        ELSE LET t == InvokeSigned(a, vault, user, vault_lamports,
                                   TagVault, vault_state, vault_state_data.vault_bump)
             IN  IF ~t.ok THEN t
                 ELSE CloseStateAccount(t.acc, user, vault_state, checked)

\* CloseIx::process
CloseProcess(a, user, vault, vault_state, checked) ==
    LET vault_state_data == RecordOf(a[vault_state].data)
        vault_lamports == a[vault].lamports
    IN  IF ~VaultMatches(vault, vault_state) THEN Fail(a, "Invalid vault PDA")
        ELSE LET t == IF vault_lamports > 0
                      THEN InvokeSigned(a, vault, user, vault_lamports,
                                        TagVault, vault_state, vault_state_data.vault_bump)
                      ELSE Ok(a)
             IN  IF ~t.ok THEN t
                 ELSE CloseStateAccount(t.acc, user, vault_state, checked)

\* an instruction: the account set is validated, then process runs
InitializeIx(a, owner, state, vault) ==
    LET v == ValidateInitialize(a, owner, state, vault)
    IN  IF ~v.ok THEN v ELSE InitializeProcess(v.acc, owner, state, vault)

DepositIx(a, user, vault, vault_state, amount) ==
    LET v == ValidateVaultAccounts(a, user, vault, vault_state)
    IN  IF ~v.ok THEN v ELSE DepositProcess(v.acc, user, vault, vault_state, amount)

WithdrawIx(a, user, vault, vault_state, amount) ==
    LET v == ValidateVaultAccounts(a, user, vault, vault_state)
    IN  IF ~v.ok THEN v ELSE WithdrawProcess(v.acc, user, vault, vault_state, amount)

CloseIx(a, user, vault, vault_state, checked) ==
    LET v == ValidateVaultAccounts(a, user, vault, vault_state)
    IN  IF ~v.ok THEN v ELSE CloseProcess(v.acc, user, vault, vault_state, checked)

(* ------------------------------ the host ------------------------------ *)

RECURSIVE SumLamports(_, _)
SumLamports(a, addrs) ==
    IF addrs = {} THEN 0
    ELSE LET x == CHOOSE y \in addrs : TRUE
         IN  a[x].lamports + SumLamports(a, addrs \ {x})

\* the lamports of the whole ledger
TotalLamports(a) == SumLamports(a, Addrs)

\* whether a working copy of the ledger has lamports where pre has not
Moved(pre, a) == \E x \in Addrs : a[x].lamports # pre[x].lamports

\* Execute keeping the working copy of a failed instruction
ExecuteNoAbort(pre, res) ==
    IF ~res.ok THEN Fail(res.acc, res.err)
    ELSE IF TotalLamports(res.acc) # TotalLamports(pre)
         THEN Fail(res.acc, "UnbalancedInstruction")
    ELSE res

\* the outcome of an instruction: a failed instruction, and one that does not
\* conserve the ledger's lamports, is aborted and leaves the ledger as it was
Execute(pre, res) ==
    IF ~res.ok THEN Fail(pre, res.err)
    ELSE IF TotalLamports(res.acc) # TotalLamports(pre)
         THEN Fail(pre, "UnbalancedInstruction")
    ELSE res

(* ------------------------------ the state ----------------------------- *)

VARIABLES
    acc,      \* the ledger: address -> account
    phase,    \* per owner: "Uninitialized", "Active" or "Closed"
    last      \* the instruction that has just run, its inputs and its outcome

vars == <<acc, phase, last>>

NoAddr == 0

\* no instruction is in flight
Idle == [op |-> "None", user |-> NoAddr, state |-> NoAddr, vault |-> NoAddr,
         amount |-> 0, ok |-> TRUE, err |-> "", moved |-> FALSE]

Init ==
    /\ acc = [x \in Addrs |->
                IF x = OwnerA THEN [DefaultAccount EXCEPT !.lamports = InitLamportsA]
                ELSE IF x = OwnerB THEN [DefaultAccount EXCEPT !.lamports = InitLamportsB]
                ELSE DefaultAccount]
    /\ phase = [w \in Wallets |-> "Uninitialized"]
    /\ last = [Idle EXCEPT !.op = "None"] @@ [pre |-> acc, prePhase |-> phase]

\* the ledger, the lifecycle and the log after instruction op has run as res
Step(op, user, state, vault, amount, res, nextPhase) ==
    LET out == Execute(acc, res)
    IN  /\ last.op = "None"
        /\ acc' = out.acc
        /\ phase' = IF out.ok THEN [phase EXCEPT ![user] = nextPhase] ELSE phase
        /\ last' = [op |-> op, user |-> user, state |-> state, vault |-> vault,
                    amount |-> amount, ok |-> out.ok, err |-> out.err,
                    moved |-> Moved(acc, res.acc), pre |-> acc, prePhase |-> phase]

Initialize ==
    \E owner \in Wallets, state \in Addrs, vault \in Addrs :
        Step("Initialize", owner, state, vault, 0,
             InitializeIx(acc, owner, state, vault), "Active")

Deposit ==
    \E user \in Wallets, state \in Addrs, vault \in Addrs, amount \in Amounts :
        Step("Deposit", user, state, vault, amount,
             DepositIx(acc, user, vault, state, amount), phase[user])

Withdraw ==
    \E user \in Wallets, state \in Addrs, vault \in Addrs, amount \in Amounts :
        Step("Withdraw", user, state, vault, amount,
             WithdrawIx(acc, user, vault, state, amount), phase[user])

Close ==
    \E user \in Wallets, state \in Addrs, vault \in Addrs, checked \in BOOLEAN :
        Step("Close", user, state, vault, 0,
             CloseIx(acc, user, vault, state, checked), "Closed")

\* the caller has seen the outcome; the next instruction may run
Return ==
    /\ last.op # "None"
    /\ last' = Idle @@ [pre |-> acc, prePhase |-> phase]
    /\ UNCHANGED <<acc, phase>>

\* the host reclaims the accounts left without lamports
Reclaim ==
    /\ last.op = "None"
    /\ \E x \in Addrs : acc[x].lamports = 0 /\ acc[x] # DefaultAccount
    /\ acc' = [x \in Addrs |-> IF acc[x].lamports = 0 THEN DefaultAccount ELSE acc[x]]
    /\ last' = Idle @@ [pre |-> acc', prePhase |-> phase]
    /\ UNCHANGED phase

Next == Initialize \/ Deposit \/ Withdraw \/ Close \/ Return \/ Reclaim

Spec == Init /\ [][Next]_vars

\* the record Initialize writes for owner
RecordFor(owner) ==
    [owner      |-> owner,
     state_bump |-> FindProgramAddress(TagState, owner).bump,
     vault_bump |-> FindProgramAddress(TagVault, StatePda(owner)).bump]

\* a vault state account holding rec, as the tests hand it to the program
StateAccountOf(rec) ==
    [lamports |-> StateRent, owner |-> VaultProgram,
     data |-> Discriminator \o BytesOf(rec)]

\* the balances a custody address is handed in with
Prefunds == 0..RentExempt

\* the accounts as a test builds them: the custody address of OwnerA holds any
\* of Prefunds, and the vault of OwnerA is either absent or already Active
InitHarness ==
    \E active \in BOOLEAN, funds \in Prefunds :
        /\ acc = [x \in Addrs |->
                    IF x \in Wallets
                    THEN [DefaultAccount EXCEPT !.lamports = InitLamportsB]
                    ELSE IF x = VaultPda(StatePda(OwnerA))
                    THEN [DefaultAccount EXCEPT !.lamports = funds]
                    ELSE IF x = StatePda(OwnerA) /\ active
                    THEN StateAccountOf(RecordFor(OwnerA))
                    ELSE DefaultAccount]
        /\ phase = [w \in Wallets |->
                      IF w = OwnerA /\ active THEN "Active" ELSE "Uninitialized"]
        /\ last = Idle @@ [pre |-> acc, prePhase |-> phase]

SpecHarness == InitHarness /\ [][Next]_vars

\* the records a caller of create_vault_state_data can put at the state
\* address of OwnerA: the record of OwnerA, or that record with the owner
\* field naming OwnerB, or with one of its bumps off by one
HandMadeRecords ==
    {RecordFor(OwnerA),
     [RecordFor(OwnerA) EXCEPT !.owner = OwnerB],
     [RecordFor(OwnerA) EXCEPT !.state_bump = @ - 1],
     [RecordFor(OwnerA) EXCEPT !.vault_bump = @ - 1]}

\* the data of the state account handed in: a record of HandMadeRecords, or
\* the record of OwnerA cut short by one byte
HandMadeData ==
    {Discriminator \o BytesOf(rec) : rec \in HandMadeRecords}
    \cup {Discriminator \o SubSeq(BytesOf(RecordFor(OwnerA)), 1, InitSpace - 1)}

\* the accounts as a test builds them, with the state account of OwnerA
\* holding hand-made data and its custody address holding one above the floor
InitHandMade ==
    \E data \in HandMadeData :
        /\ acc = [x \in Addrs |->
                    IF x \in Wallets
                    THEN [DefaultAccount EXCEPT !.lamports = InitLamportsB]
                    ELSE IF x = VaultPda(StatePda(OwnerA))
                    THEN [DefaultAccount EXCEPT !.lamports = RentExempt + 1]
                    ELSE IF x = StatePda(OwnerA)
                    THEN [StateAccountOf(RecordFor(OwnerA)) EXCEPT !.data = data]
                    ELSE DefaultAccount]
        /\ phase = [w \in Wallets |->
                      IF w = OwnerA /\ IsVaultState(acc[StatePda(OwnerA)])
                      THEN "Active" ELSE "Uninitialized"]
        /\ last = Idle @@ [pre |-> acc, prePhase |-> phase]

SpecHandMade == InitHandMade /\ [][Next]_vars

\* the accounts of OwnerA with a balance one below the largest u64:
\* "custody": no vault yet, the custody address holds it;
\* "state": an Active vault, the state account holds it, the custody address
\*          is empty;
\* "both": an Active vault, the wallet and the custody address both hold it
NearMaxLedgers ==
    {[kind |-> "custody", wallet |-> InitLamportsB, custody |-> U64Max - 1,
      state |-> DefaultAccount],
     [kind |-> "state", wallet |-> InitLamportsB, custody |-> 0,
      state |-> [StateAccountOf(RecordFor(OwnerA)) EXCEPT !.lamports = U64Max - 1]],
     [kind |-> "both", wallet |-> U64Max - 1, custody |-> U64Max - 1,
      state |-> StateAccountOf(RecordFor(OwnerA))]}

\* the accounts as a test builds them, with balances of OwnerA next to the
\* largest u64
InitNearMax ==
    \E l \in NearMaxLedgers :
        /\ acc = [x \in Addrs |->
                    IF x = OwnerA THEN [DefaultAccount EXCEPT !.lamports = l.wallet]
                    ELSE IF x = OwnerB
                    THEN [DefaultAccount EXCEPT !.lamports = InitLamportsB]
                    ELSE IF x = VaultPda(StatePda(OwnerA))
                    THEN [DefaultAccount EXCEPT !.lamports = l.custody]
                    ELSE IF x = StatePda(OwnerA) THEN l.state
                    ELSE DefaultAccount]
        /\ phase = [w \in Wallets |->
                      IF w = OwnerA /\ l.kind # "custody"
                      THEN "Active" ELSE "Uninitialized"]
        /\ last = Idle @@ [pre |-> acc, prePhase |-> phase]

SpecNearMax == InitNearMax /\ [][Next]_vars

(* ------------------------------ the claims ---------------------------- *)

VaultOps == {"Deposit", "Withdraw", "Close"}
AllOps == VaultOps \cup {"Initialize"}

\* the instruction that has just run named the addresses derived from its signer
CorrectAccounts ==
    /\ last.state = StatePda(last.user)
    /\ last.vault = VaultPda(last.state)

\* the vault of the signer was Active when the instruction started
WasActive == last.prePhase[last.user] = "Active"

\* the instruction left the ledger and the lifecycle as they were
Untouched == acc = last.pre /\ phase = last.prePhase

\* C1: for an Active vault, a Withdraw(amount) by the recorded owner with the
\* derived state and custody addresses succeeds if and only if
\* amount <= custody.balance - R.
C1_WithdrawIffWithinFloor ==
    (last.op = "Withdraw" /\ WasActive /\ CorrectAccounts
        /\ RecordOf(last.pre[last.state].data).owner = last.user)
    => (last.ok <=> last.amount <= last.pre[last.vault].lamports - RentExempt)

\* a Withdraw of exactly the withdrawable amount, more than zero, has succeeded
C1_Witness ==
    /\ last.op = "Withdraw" /\ WasActive /\ CorrectAccounts /\ last.ok
    /\ last.amount > 0
    /\ last.amount = last.pre[last.vault].lamports - RentExempt

\* C2: whenever a vault is Active its custody balance is at least R, and a
\* custody balance goes from at least R to below R only by a successful Close.
C2_FloorInvariant ==
    /\ \A o \in Wallets :
          phase[o] = "Active" => acc[VaultPda(StatePda(o))].lamports >= RentExempt
    /\ \A v \in VaultPdas :
          (last.pre[v].lamports >= RentExempt /\ acc[v].lamports < RentExempt)
          => (last.op = "Close" /\ last.ok /\ last.vault = v)

\* a successful Withdraw has brought the custody balance of an Active vault
\* down to exactly R
C2_Witness ==
    /\ last.op = "Withdraw" /\ last.ok /\ last.amount > 0
    /\ phase[last.user] = "Active"
    /\ acc[last.vault].lamports = RentExempt

\* C3: once A's vault is Active, a Deposit, Withdraw or Close that names A's
\* state and custody addresses and is signed by B # A fails and changes
\* nothing; signed by A it is not rejected for authorization.
C3_OnlyOwnerOperates ==
    \A A \in Wallets :
        (last.op \in VaultOps /\ last.prePhase[A] = "Active"
            /\ last.state = StatePda(A) /\ last.vault = VaultPda(StatePda(A)))
        => IF last.user # A
           THEN ~last.ok /\ Untouched
           ELSE last.err \notin {"InvalidSeeds", "InvalidAccountData", "InvalidAccountOwner"}

\* a signer with funds has tried to deposit into the Active vault of another
C3_Witness ==
    \E A \in Wallets :
        /\ last.op = "Deposit" /\ last.prePhase[A] = "Active" /\ last.user # A
        /\ last.state = StatePda(A) /\ last.vault = VaultPda(StatePda(A))
        /\ last.amount > 0 /\ last.amount <= last.pre[last.user].lamports
        /\ ~last.ok

\* the instruction named a state address or a custody address other than the
\* derived one
WrongAccounts == last.op \in AllOps /\ ~CorrectAccounts

\* C4 (as stated): every instruction that names a wrong state or custody
\* address fails before any value is moved, and no account is debited or
\* credited.
C4_FailsBeforeAnyMove ==
    WrongAccounts => (~last.ok /\ ~last.moved /\ Untouched)

\* C4 (amended): every instruction that names a wrong state or custody address
\* fails and leaves every balance and record as it was; value has moved before
\* the failure only in an Initialize whose state address is the derived one
\* (the storage of the record is funded before the custody address is checked).
C4_WrongAccountsRejected ==
    WrongAccounts =>
        /\ ~last.ok /\ Untouched
        /\ last.moved => (last.op = "Initialize" /\ last.state = StatePda(last.user))

\* a Deposit that the signer could afford named the custody address of
\* another owner's Active vault and was rejected
C4_Witness ==
    /\ last.op = "Deposit" /\ WasActive /\ last.state = StatePda(last.user)
    /\ last.vault \in VaultPdas /\ last.vault # VaultPda(last.state)
    /\ last.prePhase[CHOOSE w \in Wallets : w # last.user] = "Active"
    /\ last.amount > 0 /\ last.amount <= last.pre[last.user].lamports
    /\ ~last.ok

C6_DepositConserves ==
    (last.op = "Deposit" /\ last.ok) =>
        /\ acc[last.user].lamports = last.pre[last.user].lamports - last.amount
        /\ acc[last.vault].lamports = last.pre[last.vault].lamports + last.amount
        /\ acc[last.user].lamports + acc[last.vault].lamports
             = last.pre[last.user].lamports + last.pre[last.vault].lamports

\* a Deposit of less than the owner's balance, more than zero, has succeeded
C6_Witness ==
    /\ last.op = "Deposit" /\ last.ok
    /\ last.amount > 0 /\ last.amount < last.pre[last.user].lamports

\* C7: a successful Withdraw(amount) takes exactly amount from the custody
\* balance, adds exactly amount to the owner and leaves custody >= R; with
\* owner 5 and custody 8, Withdraw(3) succeeds and yields owner 8, custody 5.
C7_WithdrawExact ==
    /\ (last.op = "Withdraw" /\ last.ok) =>
          /\ acc[last.vault].lamports = last.pre[last.vault].lamports - last.amount
          /\ acc[last.user].lamports = last.pre[last.user].lamports + last.amount
          /\ acc[last.vault].lamports >= RentExempt
    /\ (last.op = "Withdraw" /\ WasActive /\ CorrectAccounts
           /\ last.pre[last.user].lamports = 5 /\ last.pre[last.vault].lamports = 8
           /\ last.amount = 3) =>
          /\ last.ok
          /\ acc[last.user].lamports = 8
          /\ acc[last.vault].lamports = 5

\* the scenario has run: owner 5, custody 8, Withdraw(3)
C7_Witness ==
    /\ last.op = "Withdraw" /\ last.ok /\ last.amount = 3
    /\ last.pre[last.user].lamports = 5 /\ last.pre[last.vault].lamports = 8

C9_ActiveOnly ==
    (last.op \in VaultOps /\ ~WasActive) => (~last.ok /\ Untouched)

\* a second Close, with the derived addresses, has followed a Close while the
\* zeroed record was still in place, and has failed
C9_Witness ==
    /\ last.op = "Close" /\ last.prePhase[last.user] = "Closed" /\ CorrectAccounts
    /\ last.pre[last.state].owner = VaultProgram
    /\ ~last.ok

\* C10: a Deposit(amount) on an Active vault with amount above the owner's
\* balance fails with the program's insufficient-funds error and leaves the
\* owner's balance and the custody balance unchanged.
C10_DepositInsufficient ==
    (last.op = "Deposit" /\ WasActive /\ CorrectAccounts
        /\ last.amount > last.pre[last.user].lamports)
    => /\ ~last.ok
       /\ last.err = "Insufficient funds"
       /\ acc[last.user].lamports = last.pre[last.user].lamports
       /\ acc[last.vault].lamports = last.pre[last.vault].lamports

\* a Deposit of more than the owner holds has been tried on an Active vault
C10_Witness ==
    /\ last.op = "Deposit" /\ WasActive /\ CorrectAccounts
    /\ last.amount > last.pre[last.user].lamports
    /\ ~last.ok

\* C11 as stated: a successful Initialize that finds at most RentExempt at the
\* custody address leaves exactly RentExempt there, and the owner pays what
\* the custody address received plus the balance of the state account
C11_FundsUpToFloor ==
    (last.op = "Initialize" /\ last.ok
        /\ last.pre[last.vault].lamports <= RentExempt)
    => /\ acc[last.vault].lamports = RentExempt
       /\ last.pre[last.user].lamports - acc[last.user].lamports
            = (acc[last.vault].lamports - last.pre[last.vault].lamports)
              + acc[last.state].lamports

\* C11: a successful Initialize moves exactly RentExempt from the owner to the
\* custody address, whatever that address held before: the custody balance
\* afterwards is the balance before plus RentExempt (RentExempt when it was
\* empty), and the owner pays RentExempt plus the balance of the state account
C11_FundsByFloor ==
    (last.op = "Initialize" /\ last.ok)
    => /\ acc[last.vault].lamports = last.pre[last.vault].lamports + RentExempt
       /\ acc[last.state].lamports = StateRent
       /\ acc[last.user].lamports
            = last.pre[last.user].lamports - RentExempt - StateRent
       /\ (last.pre[last.vault].lamports = 0
            => acc[last.vault].lamports = RentExempt)

\* Initialize has succeeded on a custody address that already held RentExempt
C11_Witness ==
    /\ last.op = "Initialize" /\ last.ok
    /\ last.pre[last.vault].lamports = RentExempt
    /\ acc[last.vault].lamports = 2 * RentExempt

\* C12: every Active record sits at the state address derived from its owner
\* field and stores the bump of that derivation and the bump of the custody
\* address derived from the state address; the owner field of a record that
\* Initialize has just written is the signer of that Initialize
C12_RecordMatchesDerivation ==
    /\ \A s \in Addrs :
         IsVaultState(acc[s])
         => LET rec == RecordOf(acc[s].data)
            IN  /\ rec.owner \in Wallets
                /\ phase[rec.owner] = "Active"
                /\ s = FindProgramAddress(TagState, rec.owner).address
                /\ rec.state_bump = FindProgramAddress(TagState, rec.owner).bump
                /\ rec.vault_bump = FindProgramAddress(TagVault, s).bump
    /\ (last.op = "Initialize" /\ last.ok)
       => /\ IsVaultState(acc[last.state])
          /\ RecordOf(acc[last.state].data).owner = last.user

\* OwnerB, whose two bumps differ, has initialized its vault
C12_Witness ==
    /\ last.op = "Initialize" /\ last.ok /\ last.user = OwnerB
    /\ RecordOf(acc[last.state].data).state_bump
         # RecordOf(acc[last.state].data).vault_bump
    /\ RecordOf(acc[last.state].data) = RecordFor(OwnerB)

\* C13: Initialize by an owner whose vault is Active fails, with the
\* already-initialized error when it names the owner's state address; the
\* record is not overwritten, no further RentExempt moves, no balance changes
C13_NoReinitialize ==
    (last.op = "Initialize" /\ WasActive)
    => /\ ~last.ok
       /\ Untouched
       /\ acc[StatePda(last.user)].data
            = Discriminator \o BytesOf(RecordFor(last.user))
       /\ (last.state = StatePda(last.user) => last.err = "AlreadyInitialized")

\* an owner that could pay for a second Initialize has tried one on its
\* Active vault, with the derived addresses
C13_Witness ==
    /\ last.op = "Initialize" /\ WasActive /\ CorrectAccounts
    /\ last.pre[last.user].lamports >= RentExempt + StateRent
    /\ last.err = "AlreadyInitialized"

\* the record in the state account the instruction that has just run was given
SuppliedRecord == RecordOf(last.pre[last.state].data)

\* C14 as stated: Deposit, Withdraw and Close given a record whose owner field
\* is not the caller fail with the authorization error and move no value,
\* also when the record sits at the state address derived from the caller
C14_OwnerFieldCompared ==
    (last.op \in VaultOps /\ IsVaultState(last.pre[last.state])
        /\ SuppliedRecord.owner # last.user)
    => ~last.ok /\ Untouched

\* C15 as stated: Deposit, Withdraw and Close given a record whose state_bump
\* or vault_bump is not the bump of the derivation fail and move no value
C15_StoredBumpsChecked ==
    (last.op \in VaultOps /\ IsVaultState(last.pre[last.state])
        /\ last.state \in StatePdas
        /\ \/ SuppliedRecord.state_bump
                # FindProgramAddress(TagState, SuppliedRecord.owner).bump
           \/ SuppliedRecord.vault_bump
                # FindProgramAddress(TagVault, last.state).bump)
    => ~last.ok /\ Untouched

\* the ledger a first Initialize by user leaves when it starts from pre
FreshVault(pre, user) ==
    [x \in Addrs |->
        IF x = user
        THEN [pre[x] EXCEPT !.lamports = @ - RentExempt - StateRent]
        ELSE IF x = StatePda(user) THEN StateAccountOf(RecordFor(user))
        ELSE IF x = VaultPda(StatePda(user))
        THEN [pre[x] EXCEPT !.lamports = @ + RentExempt]
        ELSE pre[x]]

C17_RecordImmutable ==
    (last.op \in {"Deposit", "Withdraw"})
    => /\ \A s \in StatePdas : acc[s] = last.pre[s]
       /\ \A s \in StatePdas :
            IsVaultState(last.pre[s])
            => /\ RecordOf(acc[s].data) = RecordOf(last.pre[s].data)
               /\ acc[s].lamports = StateRent
       /\ phase = last.prePhase

\* a Deposit or a Withdraw has moved value on an Active vault
C17_Witness ==
    /\ last.op \in {"Deposit", "Withdraw"} /\ last.ok /\ last.amount > 0
    /\ IsVaultState(last.pre[last.state])
    /\ acc[last.vault].lamports # last.pre[last.vault].lamports

\* the seed keys of the ledger: the wallets and the state addresses
SeedKeys == Wallets \cup StatePdas

\* for both seed tags and every seed key, the derived address verifies with
\* the derived bump and no other address does
DerivationsVerify ==
    \A tag \in {TagState, TagVault}, key \in SeedKeys :
        LET d == FindProgramAddress(tag, key)
        IN  /\ VerifyDerivation(d.address, tag, key, d.bump)
            /\ \A x \in Addrs \cup {NoAddr, d.address - 1, d.address + 1,
                                     d.address + 256} :
                 x # d.address => ~VerifyDerivation(x, tag, key, d.bump)

BodyOf(data) == SubSeq(data, Len(Discriminator) + 1, Len(data))

\* every record of the ledger, hand-made or written by Initialize, is encoded
\* as InitSpace bytes that read back as the record
RecordsRoundTrip ==
    \A rec \in HandMadeRecords \cup {RecordFor(w) : w \in Wallets} :
        /\ Len(BytesOf(rec)) = InitSpace
        /\ RecordOf(Discriminator \o BytesOf(rec)) = rec

\* C19: the record Initialize writes is InitSpace bytes, the owner at bytes
\* 0..31, state_bump at byte 32, vault_bump at byte 33, and reads back as the
\* record written; every record so encoded reads back as itself; a state
\* account whose data is not InitSpace bytes after the discriminator is
\* refused by Deposit, Withdraw and Close as invalid account data
C19_CodecRoundTrip ==
    /\ (last.op = "Initialize" /\ last.ok)
       => LET body == BodyOf(acc[last.state].data)
              rec  == RecordFor(last.user)
          IN  /\ Len(body) = InitSpace
              /\ SubSeq(body, 1, PubkeyLen) = LeBytes(last.user, PubkeyLen)
              /\ body[PubkeyLen + 1] = rec.state_bump
              /\ body[PubkeyLen + 2] = rec.vault_bump
              /\ RecordOf(acc[last.state].data) = rec
    /\ RecordsRoundTrip
    /\ (last.op \in VaultOps /\ last.pre[last.state].owner = VaultProgram
           /\ Len(BodyOf(last.pre[last.state].data)) # InitSpace)
       => /\ ~last.ok /\ Untouched
          /\ (IsSystemAccount(last.pre[last.vault])
                => last.err = "InvalidAccountData")

\* OwnerB, whose two bumps differ, has initialized its vault and the bytes of
\* its state account read back as its record
C19_Witness ==
    /\ last.op = "Initialize" /\ last.ok /\ last.user = OwnerB
    /\ Len(BodyOf(acc[last.state].data)) = InitSpace
    /\ BodyOf(acc[last.state].data)[PubkeyLen + 1]
         # BodyOf(acc[last.state].data)[PubkeyLen + 2]
    /\ RecordOf(acc[last.state].data).owner = OwnerB

\* the errors that report a lack of balance
BalanceErrors ==
    {"Insufficient funds", "Insufficient vault balance", "SystemInsufficientFunds"}

OwnerSum(a, w) ==
    a[w].lamports + a[StatePda(w)].lamports + a[VaultPda(StatePda(w))].lamports

\* C21: after any Initialize, Deposit, Withdraw or Close, successful or
\* failed, the sum over all owners of wallet, custody and state account
\* balances is what it was before; so is the sum of each owner taken alone
C21_ValueConserved ==
    (last.op \in AllOps)
    => /\ TotalLamports(acc) = TotalLamports(last.pre)
       /\ OwnerSum(acc, OwnerA) + OwnerSum(acc, OwnerB)
            = OwnerSum(last.pre, OwnerA) + OwnerSum(last.pre, OwnerB)
       /\ \A w \in Wallets : OwnerSum(acc, w) = OwnerSum(last.pre, w)

\* a Close has moved the custody balance and the balance of the state
\* account to the owner
C21_Witness ==
    /\ last.op = "Close" /\ last.ok
    /\ last.pre[last.vault].lamports > 0
    /\ acc[last.user].lamports
         = last.pre[last.user].lamports + last.pre[last.vault].lamports + StateRent
    /\ acc[last.vault].lamports = 0 /\ acc[last.state].lamports = 0

\* C22: every step that lowers the balance of a custody address is a
\* successful Withdraw or Close, signed by the owner recorded in the state
\* account that custody address is derived from; in that step the owner's
\* wallet gains exactly what the custody address lost (and, in Close, what the
\* state account held), and no other wallet gains anything
C22_OnlyOwnerDecreases ==
    [][\A v \in VaultPdas :
         acc'[v].lamports < acc[v].lamports
         => LET u == last'.user
                s == StatePda(u)
            IN  /\ last'.op \in {"Withdraw", "Close"}
                /\ last'.ok
                /\ last'.vault = v /\ last'.state = s /\ v = VaultPda(s)
                /\ IsVaultState(acc[s])
                /\ RecordOf(acc[s].data).owner = u
                /\ acc'[u].lamports - acc[u].lamports
                     = (acc[v].lamports - acc'[v].lamports)
                       + (acc[s].lamports - acc'[s].lamports)
                /\ last'.op = "Withdraw" => acc'[s] = acc[s]
                /\ \A w \in Wallets \ {u} : acc'[w] = acc[w]]_vars

\* a Withdraw has lowered the custody balance of its signer and raised the
\* signer's wallet by as much
C22_Witness ==
    /\ last.op = "Withdraw" /\ last.ok
    /\ acc[last.vault].lamports < last.pre[last.vault].lamports
    /\ RecordOf(last.pre[last.state].data).owner = last.user
    /\ acc[last.user].lamports - last.pre[last.user].lamports
         = last.pre[last.vault].lamports - acc[last.vault].lamports

\* the state and custody addresses of the two owners are four addresses, none
\* of them a wallet
AddressesDistinct ==
    /\ StatePda(OwnerA) # StatePda(OwnerB)
    /\ VaultPda(StatePda(OwnerA)) # VaultPda(StatePda(OwnerB))
    /\ Cardinality(StatePdas \cup VaultPdas) = 4
    /\ (StatePdas \cup VaultPdas) \cap Wallets = {}
    /\ NoAddr \notin StatePdas \cup VaultPdas

\* C23: an instruction signed by one owner, with any addresses and whether it
\* succeeds or fails, leaves the state account (record and balance), the
\* custody balance, the wallet and the lifecycle of the other owner as they
\* were; and the addresses derived for the two owners are distinct
C23_OwnersIndependent ==
    /\ AddressesDistinct
    /\ (last.op \in AllOps)
       => \A w \in Wallets \ {last.user} :
            /\ acc[StatePda(w)] = last.pre[StatePda(w)]
            /\ acc[VaultPda(StatePda(w))] = last.pre[VaultPda(StatePda(w))]
            /\ acc[w] = last.pre[w]
            /\ phase[w] = last.prePhase[w]

\* an owner has tried to withdraw from the Active vault of the other owner,
\* which held more than RentExempt, naming the other owner's addresses
C23_Witness ==
    /\ last.op = "Withdraw" /\ last.amount > 0 /\ ~last.ok
    /\ \E w \in Wallets \ {last.user} :
         /\ last.state = StatePda(w) /\ last.vault = VaultPda(last.state)
         /\ last.prePhase[w] = "Active"
         /\ last.pre[last.vault].lamports >= RentExempt + last.amount
         /\ acc[last.vault] = last.pre[last.vault]

\* below the rent-exempt minimum the withdrawable amount is 0
NothingBelowFloor ==
    \A x \in 0..(RentExempt - 1) :
        /\ SaturatingSub(x, RentExempt) = 0
        /\ ~WithdrawFundsCheck(x, RentExempt, 1)
        /\ WithdrawFundsCheck(x, RentExempt, 0)

\* C24: while the custody address of an Active vault holds less than
\* RentExempt, a Withdraw by the owner of more than 0 fails for insufficient
\* vault balance and changes nothing, and a Withdraw of 0 succeeds and changes
\* no balance
C24_SaturatingWithdraw ==
    /\ NothingBelowFloor
    /\ (last.op = "Withdraw" /\ WasActive /\ CorrectAccounts
           /\ last.pre[last.vault].lamports < RentExempt)
       => /\ last.amount > 0
             => /\ ~last.ok
                /\ last.err = "Insufficient vault balance"
                /\ Untouched
          /\ last.amount = 0 => (last.ok /\ Untouched)

\* the owner of an Active vault whose custody address holds 1, less than
\* RentExempt, has asked for 1 and been refused
C24_Witness ==
    /\ last.op = "Withdraw" /\ WasActive /\ CorrectAccounts
    /\ last.pre[last.vault].lamports > 0
    /\ last.pre[last.vault].lamports < RentExempt
    /\ last.amount = last.pre[last.vault].lamports
    /\ ~last.ok /\ last.err = "Insufficient vault balance"

\* the balances of the instruction that has just run, before and after
PreUser == last.pre[last.user].lamports
PreVault == last.pre[last.vault].lamports
PreState == last.pre[last.state].lamports

\* the instruction that has just run had everything it needs to succeed, but
\* a credit made by a system transfer would exceed U64Max
TransferWouldOverflow ==
    /\ CorrectAccounts
    /\ \/ /\ last.op = "Initialize"
          /\ last.pre[last.state] = DefaultAccount
          /\ PreUser >= RentExempt + StateRent
          /\ PreVault + RentExempt > U64Max
       \/ /\ last.op = "Deposit" /\ WasActive
          /\ PreUser >= last.amount
          /\ PreVault + last.amount > U64Max
       \/ /\ last.op = "Withdraw" /\ WasActive
          /\ PreVault - RentExempt >= last.amount
          /\ PreUser + last.amount > U64Max
       \/ /\ last.op = "Close" /\ WasActive
          /\ PreUser + PreVault > U64Max

\* the transfer of Close fits, but adding the balance of the state account to
\* the wallet would exceed U64Max
ClosureWouldOverflow ==
    /\ CorrectAccounts
    /\ last.op = "Close" /\ WasActive
    /\ PreUser + PreVault <= U64Max
    /\ PreUser + PreVault + PreState > U64Max

====
